---- MODULE Spec2Model ----
(***************************************************************************)
(* Model of src/project.rs (sheep_it): the Project constructors            *)
(* (new_local_project, new_remote_project, new_dry_run_project) and        *)
(* Project::update / Project::update_repo, the gated mutation sequence     *)
(* branch -> commit -> tag -> push.                                        *)
(*                                                                         *)
(* The collaborators project.rs calls (GitOpener, GitCloner, GitRemotes,   *)
(* GitBranches, GitCommits, GitTags, ProjectVersion, ProjectStrings,       *)
(* dryrun::directory, path::repo_path, Config::default) live in other      *)
(* files of the crate; they are modelled from their contracts.  A call of  *)
(* update is one action; the primitives it invokes are recorded, in order, *)
(* in the history variable `calls`.                                        *)
(*                                                                         *)
(* The constructors are associated functions: they can be called at any    *)
(* time and any number of times, and every Project they return can be      *)
(* updated.  The history variables hold the record of the last call.       *)
(***************************************************************************)
EXTENDS Integers, Sequences, FiniteSets, TLC

VARIABLES
    repos,            \* storage location -> repository stored there
    version,          \* the version ProjectVersion reads for the project
    default_config,   \* the value Config::default() yields
    tmp_count,        \* temporary directories allocated so far
    projects,         \* the Project values the constructor calls have returned so far
    nctors,           \* constructor calls made so far
    nupdates,         \* update calls made so far
    stranded,         \* branches that update calls before the last call created and then failed
    \* The record of the last call when it was a constructor call (empty otherwise):
    project,          \* the Project it returned, NoProject on Err
    ctor_calls,       \* the collaborators it invoked, in order
    ctor_result,      \* its outcome
    ctor_before,      \* repos and tmp_count as it started
    \* The record of the last call when it was an update call (empty otherwise):
    receiver,         \* the project it was made on
    calls,            \* the primitives it invoked, in order
    result,           \* what it returned
    before,           \* repos as it started
    after,            \* repos as it returned
    version_update,   \* the version transition it resolved
    strings,          \* the identifiers it rendered
    steps,            \* what it did, statement by statement
    twin              \* outcome of the same call on the project with is_dry_run_project flipped

vars == <<repos, version, default_config, tmp_count, projects, project,
          ctor_calls, ctor_result, ctor_before, nctors, receiver, calls, result,
          before, after, version_update, strings, steps, stranded, twin,
          nupdates>>

----------------------------------------------------------------------------
(* Bounds *)

\* calls (of a constructor or of update) explored per behaviour
MaxCalls == 3

\* collaborators the environment makes fail during one call
MaxFailures == 1

----------------------------------------------------------------------------
(* Values *)

WorkPath == <<"work">>
NotARepoPath == <<"elsewhere">>
CheckoutDir == <<"checkouts">>
Paths == {WorkPath, NotARepoPath}

OriginUrl == <<"ssh://host", "proj.git">>
NoUrl == <<>>
RemoteNames == {"origin", "upstream"}

Operations == {"major", "minor", "patch"}
InitVersions == {<<1, 2, 3>>}

MainBranch == [template |-> "main", version |-> <<>>]

Prims == {"create_branch", "checkout_branch", "commit", "create_tag",
          "push_branch", "push_tag"}

NoError == [source |-> "none", kind |-> "none"]
Error(source, kind) == [source |-> source, kind |-> kind]

NoProject == [present |-> FALSE]
NoVersionUpdate == [old |-> <<>>, new |-> <<>>]

\* A repository as the primitives see it.
Repo(branches, tags, remotes) ==
    [branches |-> branches, head |-> MainBranch, commits |-> <<>>,
     tags |-> tags, remotes |-> remotes]

NoRemotes == [n \in RemoteNames |-> NoUrl]

----------------------------------------------------------------------------
(* Version Resolver and Release Identifier Builder (contracts, spec.md 4.3) *)

\* ProjectVersion::new(&self): the version state the resolver reads.
ProjectVersion(self, current) == current

\* operation.version_update(&project_version): old -> new, a semver bump.
version_update_of(operation, project_version) ==
    LET v == project_version IN
    [old |-> v,
     new |-> CASE operation = "major" -> <<v[1] + 1, 0, 0>>
               [] operation = "minor" -> <<v[1], v[2] + 1, 0>>
               [] operation = "patch" -> <<v[1], v[2], v[3] + 1>>]

\* ProjectStrings::new(&config, &version_update): the four rendered strings.
ProjectStrings(config, vu) ==
    [branch_name    |-> [template |-> "release/", version |-> vu.new],
     commit_message |-> [template |-> "Release ", version |-> vu.new],
     tag_name       |-> [template |-> "", version |-> vu.new],
     remote_name    |-> config.remote_name]

----------------------------------------------------------------------------
(* Mutation primitives (contracts, spec.md 4.4 and 6).  r is the running   *)
(* state of one update_repo call: the repositories, the primitives invoked *)
(* so far and the error of the failed one.  env is the set of primitives   *)
(* the environment makes fail (I/O, authentication, nothing to commit).    *)

NotApplicable == <<"n/a">>

Invocation(prim, repo, name, remote, paths, target, ok) ==
    [prim |-> prim, repo |-> repo, name |-> name, remote |-> remote,
     paths |-> paths, target |-> target, ok |-> ok, error |-> NoError]

Failed(r, call, kind) ==
    [r EXCEPT !.calls = Append(@, [call EXCEPT !.ok = FALSE,
                                                !.error = Error(call.prim, kind)]),
              !.err = Error(call.prim, kind)]

Succeeded(r, call, repos1) ==
    [r EXCEPT !.calls = Append(@, [call EXCEPT !.ok = TRUE]),
              !.repos = repos1]

\* GitBranches::create_branch(repo, name)
create_branch(r, env, repo, name) ==
    LET call == Invocation("create_branch", repo, name, "n/a", NotApplicable, "n/a", TRUE) IN
    IF name \in r.repos[repo].branches THEN Failed(r, call, "already_exists")
    ELSE IF "create_branch" \in env THEN Failed(r, call, "io")
    ELSE Succeeded(r, call, [r.repos EXCEPT ![repo].branches = @ \cup {name}])

\* GitBranches::checkout_branch(repo, name)
checkout_branch(r, env, repo, name) ==
    LET call == Invocation("checkout_branch", repo, name, "n/a", NotApplicable, "n/a", TRUE) IN
    IF name \notin r.repos[repo].branches THEN Failed(r, call, "not_found")
    ELSE IF "checkout_branch" \in env THEN Failed(r, call, "io")
    ELSE Succeeded(r, call, [r.repos EXCEPT ![repo].head = name])

\* GitCommits::commit(repo, paths, message)
commit(r, env, repo, paths, message) ==
    LET call == Invocation("commit", repo, message, "n/a", paths, "n/a", TRUE) IN
    IF "commit" \in env THEN Failed(r, call, "nothing_to_commit")
    ELSE Succeeded(r, call,
            [r.repos EXCEPT ![repo].commits =
                Append(@, [message |-> message, paths |-> paths,
                           branch |-> r.repos[repo].head])])

\* GitTags::create_tag(repo, name, target)
create_tag(r, env, repo, name, target) ==
    LET call == Invocation("create_tag", repo, name, "n/a", NotApplicable, target, TRUE) IN
    IF name \in r.repos[repo].tags THEN Failed(r, call, "already_exists")
    ELSE IF "create_tag" \in env THEN Failed(r, call, "io")
    ELSE Succeeded(r, call, [r.repos EXCEPT ![repo].tags = @ \cup {name}])

\* GitRemotes::push_branch(repo, branch_name, remote_name)
push_branch(r, env, repo, name, remote_name) ==
    LET call == Invocation("push_branch", repo, name, remote_name, NotApplicable, "n/a", TRUE)
        url == r.repos[repo].remotes[remote_name]
    IN
    IF url = NoUrl \/ url \notin DOMAIN r.repos THEN Failed(r, call, "remote_not_found")
    ELSE IF name \notin r.repos[repo].branches THEN Failed(r, call, "not_found")
    ELSE IF "push_branch" \in env THEN Failed(r, call, "rejected")
    ELSE Succeeded(r, call, [r.repos EXCEPT ![url].branches = @ \cup {name}])

\* GitRemotes::push_tag(repo, tag_name, remote_name)
push_tag(r, env, repo, name, remote_name) ==
    LET call == Invocation("push_tag", repo, name, remote_name, NotApplicable, "n/a", TRUE)
        url == r.repos[repo].remotes[remote_name]
    IN
    IF url = NoUrl \/ url \notin DOMAIN r.repos THEN Failed(r, call, "remote_not_found")
    ELSE IF name \notin r.repos[repo].tags THEN Failed(r, call, "not_found")
    ELSE IF "push_tag" \in env THEN Failed(r, call, "rejected")
    ELSE Succeeded(r, call, [r.repos EXCEPT ![url].tags = @ \cup {name}])

----------------------------------------------------------------------------
(* Project::update_repo, project.rs 83-118.  Each `?` is an early return   *)
(* of the error: the step that follows runs only when r.err = NoError.     *)

\* branch_step checking the branch out whether or not it was created.
branch_step_checkout_anyway(r, env, repo, repo_config, project_strings) ==
    IF repo_config.enable_branch
    THEN checkout_branch(create_branch(r, env, repo, project_strings.branch_name),
                         env, repo, project_strings.branch_name)
    ELSE r

\* branch_step checking out the branch when it is there already.
branch_step_checkout_existing(r, env, repo, repo_config, project_strings) ==
    IF repo_config.enable_branch
    THEN IF project_strings.branch_name \in r.repos[repo].branches
         THEN checkout_branch(r, env, repo, project_strings.branch_name)
         ELSE LET r1 == create_branch(r, env, repo, project_strings.branch_name) IN
              IF r1.err # NoError THEN r1
              ELSE checkout_branch(r1, env, repo, project_strings.branch_name)
    ELSE r

\* project.rs 88-92
branch_step(r, env, repo, repo_config, project_strings) ==
    IF repo_config.enable_branch
    THEN LET r1 == create_branch(r, env, repo, project_strings.branch_name) IN
         IF r1.err # NoError THEN r1
         ELSE checkout_branch(r1, env, repo, project_strings.branch_name)
    ELSE r

\* commit_step committing whatever enable_commit says.
commit_step_ungated(r, env, repo, repo_config, project_strings) ==
    commit(r, env, repo, <<>>, project_strings.commit_message)

\* commit_step staging the whole working tree.
commit_step_stage_all(r, env, repo, repo_config, project_strings) ==
    IF repo_config.enable_commit
    THEN commit(r, env, repo, <<".">>, project_strings.commit_message)
    ELSE r

\* project.rs 94-97
commit_step(r, env, repo, repo_config, project_strings) ==
    IF repo_config.enable_commit
    THEN commit(r, env, repo, <<>>, project_strings.commit_message)
    ELSE r

\* tag_step tagging only when a branch was made as well.
tag_step_needs_branch(r, env, repo, repo_config, project_strings) ==
    IF repo_config.enable_tag /\ repo_config.enable_branch
    THEN create_tag(r, env, repo, project_strings.tag_name, "None")
    ELSE r

\* project.rs 99-102
tag_step(r, env, repo, repo_config, project_strings) ==
    IF repo_config.enable_tag
    THEN create_tag(r, env, repo, project_strings.tag_name, "None")
    ELSE r

\* push_step pushing the branch whenever enable_push is set.
push_step_any_branch(r, env, repo, repo_config, project_strings) ==
    IF repo_config.enable_push
    THEN LET r1 == push_branch(r, env, repo, project_strings.branch_name,
                               project_strings.remote_name)
         IN
         IF r1.err # NoError THEN r1
         ELSE IF repo_config.enable_tag
              THEN push_tag(r1, env, repo, project_strings.tag_name,
                            project_strings.remote_name)
              ELSE r1
    ELSE r

\* push_step pushing the tag whenever enable_push is set.
push_step_any_tag(r, env, repo, repo_config, project_strings) ==
    IF repo_config.enable_push
    THEN LET r1 == IF repo_config.enable_branch
                   THEN push_branch(r, env, repo, project_strings.branch_name,
                                    project_strings.remote_name)
                   ELSE r
         IN
         IF r1.err # NoError THEN r1
         ELSE push_tag(r1, env, repo, project_strings.tag_name,
                       project_strings.remote_name)
    ELSE r

\* project.rs 104-116
push_step(r, env, repo, repo_config, project_strings) ==
    IF repo_config.enable_push
    THEN LET r1 == IF repo_config.enable_branch
                   THEN push_branch(r, env, repo, project_strings.branch_name,
                                    project_strings.remote_name)
                   ELSE r
         IN
         IF r1.err # NoError THEN r1
         ELSE IF repo_config.enable_tag
              THEN push_tag(r1, env, repo, project_strings.tag_name,
                            project_strings.remote_name)
              ELSE r1
    ELSE r

\* update_repo tagging before it commits.
update_repo_tag_first(repos0, env, repo, repo_config, project_strings) ==
    LET r0 == [repos |-> repos0, calls |-> <<>>, err |-> NoError]
        r1 == branch_step(r0, env, repo, repo_config, project_strings)
        r2 == IF r1.err # NoError THEN r1
              ELSE tag_step(r1, env, repo, repo_config, project_strings)
        r3 == IF r2.err # NoError THEN r2
              ELSE commit_step(r2, env, repo, repo_config, project_strings)
        r4 == IF r3.err # NoError THEN r3
              ELSE push_step(r3, env, repo, repo_config, project_strings)
    IN r4

\* update_repo going on to the tag step when the commit failed.
update_repo_commit_unchecked(repos0, env, repo, repo_config, project_strings) ==
    LET r0 == [repos |-> repos0, calls |-> <<>>, err |-> NoError]
        r1 == branch_step(r0, env, repo, repo_config, project_strings)
        r2 == IF r1.err # NoError THEN r1
              ELSE commit_step(r1, env, repo, repo_config, project_strings)
        r3 == IF r1.err # NoError THEN r2
              ELSE tag_step(r2, env, repo, repo_config, project_strings)
        r4 == IF r3.err # NoError THEN r3
              ELSE push_step(r3, env, repo, repo_config, project_strings)
    IN r4

\* update_repo going on to the commit step when the branch step failed.
update_repo_branch_unchecked(repos0, env, repo, repo_config, project_strings) ==
    LET r0 == [repos |-> repos0, calls |-> <<>>, err |-> NoError]
        r1 == branch_step(r0, env, repo, repo_config, project_strings)
        r2 == commit_step(r1, env, repo, repo_config, project_strings)
        r3 == IF r2.err # NoError THEN r2
              ELSE tag_step(r2, env, repo, repo_config, project_strings)
        r4 == IF r3.err # NoError THEN r3
              ELSE push_step(r3, env, repo, repo_config, project_strings)
    IN r4

\* project.rs 83-118
update_repo(repos0, env, repo, repo_config, project_strings) ==
    LET r0 == [repos |-> repos0, calls |-> <<>>, err |-> NoError]
        r1 == branch_step(r0, env, repo, repo_config, project_strings)
        r2 == IF r1.err # NoError THEN r1
              ELSE commit_step(r1, env, repo, repo_config, project_strings)
        r3 == IF r2.err # NoError THEN r2
              ELSE tag_step(r2, env, repo, repo_config, project_strings)
        r4 == IF r3.err # NoError THEN r3
              ELSE push_step(r3, env, repo, repo_config, project_strings)
    IN r4

\* Repository::path() of git2: the repository's .git directory.
repo_path_of(repo) == Append(repo, ".git")

\* ProjectUpdateInfo::new, project.rs 126-130
ProjectUpdateInfo(repo_path) == [repo_path |-> repo_path]

\* project.rs 75-80: `?` returns update_repo's error, otherwise
\* Ok(ProjectUpdateInfo::new(self.repo.path())).
update_returns(self, r) ==
    IF r.err # NoError
    THEN [ok |-> FALSE, error |-> r.err, info |-> ProjectUpdateInfo(<<>>)]
    ELSE [ok |-> TRUE, error |-> NoError,
          info |-> ProjectUpdateInfo(repo_path_of(self.repo))]

\* project.rs 71-75 in statement order: the version is read and resolved,
\* the identifiers are rendered, then update_repo invokes its primitives.
update_steps(r) ==
    <<"ProjectVersion::new", "version_update", "ProjectStrings::new">>
        \o [i \in 1..Len(r.calls) |-> r.calls[i].prim]

\* Everything one update call produces: the repositories afterwards, the
\* primitives invoked, the resolved version, the rendered identifiers and
\* the Result returned.
UpdateOutcome(self, r, vu, project_strings) ==
    [repos |-> r.repos, calls |-> r.calls, version_update |-> vu,
     strings |-> project_strings, steps |-> update_steps(r),
     result |-> update_returns(self, r)]

\* update putting the repositories back as they were when update_repo failed.
update_with_rollback(self, repos0, env, vu, project_strings) ==
    LET r == update_repo(repos0, env, self.repo, self.config.repository,
                         project_strings)
    IN UpdateOutcome(self,
                     IF r.err # NoError THEN [r EXCEPT !.repos = repos0] ELSE r,
                     vu, project_strings)

\* update leaving the push step out for a dry-run project.
update_with_dry_run_guard(self, repos0, env, vu, project_strings) ==
    UpdateOutcome(self,
                  update_repo(repos0, env, self.repo,
                              [self.config.repository EXCEPT
                                 !.enable_push = @ /\ ~self.is_dry_run_project],
                              project_strings),
                  vu, project_strings)

\* update handing update_repo the repository of the working copy.
update_with_work_copy(self, repos0, env, vu, project_strings) ==
    UpdateOutcome(self,
                  update_repo(repos0, env, WorkPath, self.config.repository,
                              project_strings),
                  vu, project_strings)

\* project.rs 75-80
update_with(self, repos0, env, vu, project_strings) ==
    UpdateOutcome(self,
                  update_repo(repos0, env, self.repo, self.config.repository,
                              project_strings),
                  vu, project_strings)

\* update rendering the identifiers from the version as read, not as resolved.
update_unresolved_strings(self, repos0, current, operation, env) ==
    LET project_version == ProjectVersion(self, current)
        vu == version_update_of(operation, project_version)
    IN update_with(self, repos0, env, vu,
                   ProjectStrings(self.config, [vu EXCEPT !.new = vu.old]))

\* Project::update, project.rs 69-81
update(self, repos0, current, operation, env) ==
    LET project_version == ProjectVersion(self, current)
        vu == version_update_of(operation, project_version)
    IN update_with(self, repos0, env, vu, ProjectStrings(self.config, vu))

----------------------------------------------------------------------------
(* Constructors, project.rs 31-67.  c is the running state of one          *)
(* constructor call: the repositories, the temporary directories allocated,*)
(* the collaborators invoked so far, the value the last one returned and   *)
(* the error of the failed one.  env is the set of collaborator steps the  *)
(* environment makes fail.                                                 *)

CtorState(repos0, tmp0) ==
    [repos |-> repos0, tmp_count |-> tmp0, calls |-> <<>>, value |-> <<>>,
     err |-> NoError, project |-> NoProject]

CtorFailed(c, step, arg, kind) ==
    [c EXCEPT !.calls = Append(@, [step |-> step, arg |-> arg, ok |-> FALSE]),
              !.err = Error(step, kind)]

CtorReturned(c, step, arg, value) ==
    [c EXCEPT !.calls = Append(@, [step |-> step, arg |-> arg, ok |-> TRUE]),
              !.value = value]

\* A repository with a working copy, as opposed to one served at a URL.
IsWorkingCopy(repos0, path) == path \in DOMAIN repos0 /\ path # OriginUrl

\* GitOpener::open(path)
open(c, env, path) ==
    IF ~IsWorkingCopy(c.repos, path) \/ "open" \in env
    THEN CtorFailed(c, "open", path, "not_a_repository")
    ELSE CtorReturned(c, "open", path, path)

\* The directory name a clone of url gets: the last segment, ".git" dropped.
RepoName(url) ==
    CASE url[Len(url)] = "proj.git" -> "proj"
      [] url[Len(url)] = "gone.git" -> "gone"

\* path::repo_path(url, directory)
repo_path(c, env, url, directory) ==
    IF "repo_path" \in env
    THEN CtorFailed(c, "repo_path", url, "invalid_url")
    ELSE CtorReturned(c, "repo_path", url, Append(directory, RepoName(url)))

\* GitCloner::clone(url, repo_path): a new repository at repo_path holding the
\* refs served at url, with remote "origin" set to url.
clone(c, env, url, dest) ==
    IF url \notin DOMAIN c.repos \/ dest \in DOMAIN c.repos \/ "clone" \in env
    THEN CtorFailed(c, "clone", url, "clone_failed")
    ELSE [CtorReturned(c, "clone", url, dest) EXCEPT
            !.repos = (dest :> [c.repos[url] EXCEPT
                                  !.remotes = [NoRemotes EXCEPT !["origin"] = url]])
                      @@ c.repos]

\* GitRemotes::remote_url(repo, name)
remote_url(c, env, repo, name) ==
    IF c.repos[repo].remotes[name] = NoUrl \/ "remote_url" \in env
    THEN CtorFailed(c, "remote_url", <<name>>, "remote_not_found")
    ELSE CtorReturned(c, "remote_url", <<name>>, c.repos[repo].remotes[name])

\* dryrun::directory(): a temporary directory that did not exist before.
directory(c, env) ==
    IF "directory" \in env
    THEN CtorFailed(c, "directory", <<>>, "tmp_dir_failed")
    ELSE [CtorReturned(c, "directory", <<>>, <<"tmp", ToString(c.tmp_count + 1)>>)
            EXCEPT !.tmp_count = @ + 1]

\* Config::default()
Config_default == default_config

\* The struct literal Project { config, repo, is_dry_run_project }, project.rs 24-28
Project(config, repo, is_dry_run_project) ==
    [present |-> TRUE, config |-> config, repo |-> repo,
     is_dry_run_project |-> is_dry_run_project]

\* project.rs 31-40
new_local_project(c, env, path) ==
    LET c1 == open(c, env, path) IN
    IF c1.err # NoError THEN c1
    ELSE [c1 EXCEPT !.project = Project(Config_default, c1.value, FALSE)]

\* project.rs 42-52
new_remote_project(c, env, url, dir) ==
    LET c1 == repo_path(c, env, url, dir) IN
    IF c1.err # NoError THEN c1
    ELSE LET c2 == clone(c1, env, url, c1.value) IN
         IF c2.err # NoError THEN c2
         ELSE [c2 EXCEPT !.project = Project(Config_default, c2.value, FALSE)]

\* new_dry_run_project keeping the handle of the local project.
new_dry_run_project_local_handle(c, env, path) ==
    LET c1 == new_local_project(c, env, path) IN
    IF c1.err # NoError THEN c1
    ELSE LET local_project == c1.project
             c2 == remote_url([c1 EXCEPT !.project = NoProject], env,
                              local_project.repo, "origin")
         IN
         IF c2.err # NoError THEN c2
         ELSE LET c3 == directory(c2, env) IN
              IF c3.err # NoError THEN c3
              ELSE LET c4 == new_remote_project(c3, env, c2.value, c3.value) IN
                   IF c4.err # NoError THEN c4
                   ELSE [c4 EXCEPT !.project =
                            Project(local_project.config, local_project.repo, TRUE)]

\* new_dry_run_project resolving the remote named "upstream".
new_dry_run_project_upstream(c, env, path) ==
    LET c1 == new_local_project(c, env, path) IN
    IF c1.err # NoError THEN c1
    ELSE LET local_project == c1.project
             c2 == remote_url([c1 EXCEPT !.project = NoProject], env,
                              local_project.repo, "upstream")
         IN
         IF c2.err # NoError THEN c2
         ELSE LET c3 == directory(c2, env) IN
              IF c3.err # NoError THEN c3
              ELSE LET c4 == new_remote_project(c3, env, c2.value, c3.value) IN
                   IF c4.err # NoError THEN c4
                   ELSE [c4 EXCEPT !.project =
                            Project(local_project.config, c4.project.repo, TRUE)]

\* new_dry_run_project allocating the directory before it resolves the remote.
new_dry_run_project_directory_first(c, env, path) ==
    LET c1 == new_local_project(c, env, path) IN
    IF c1.err # NoError THEN c1
    ELSE LET local_project == c1.project
             c2 == directory([c1 EXCEPT !.project = NoProject], env)
         IN
         IF c2.err # NoError THEN c2
         ELSE LET c3 == remote_url(c2, env, local_project.repo, "origin") IN
              IF c3.err # NoError THEN c3
              ELSE LET c4 == new_remote_project(c3, env, c3.value, c2.value) IN
                   IF c4.err # NoError THEN c4
                   ELSE [c4 EXCEPT !.project =
                            Project(local_project.config, c4.project.repo, TRUE)]

\* project.rs 54-67
new_dry_run_project(c, env, path) ==
    LET c1 == new_local_project(c, env, path) IN
    IF c1.err # NoError THEN c1
    ELSE LET local_project == c1.project
             c2 == remote_url([c1 EXCEPT !.project = NoProject], env,
                              local_project.repo, "origin")
         IN
         IF c2.err # NoError THEN c2
         ELSE LET c3 == directory(c2, env) IN
              IF c3.err # NoError THEN c3
              ELSE LET c4 == new_remote_project(c3, env, c2.value, c3.value) IN
                   IF c4.err # NoError THEN c4
                   ELSE [c4 EXCEPT !.project =
                            Project(local_project.config, c4.project.repo, TRUE)]

----------------------------------------------------------------------------
(* The state machine *)

Urls == {OriginUrl, <<"ssh://host", "gone.git">>}
CtorEnvSteps == {"open", "remote_url", "directory", "repo_path", "clone"}

RepoConfigs ==
    [enable_branch : BOOLEAN, enable_commit : BOOLEAN,
     enable_tag : BOOLEAN, enable_push : BOOLEAN]
Configs == [repository : RepoConfigs, remote_name : RemoteNames]

\* The failure patterns of one update call.
Envs == {env \in SUBSET Prims : Cardinality(env) <= MaxFailures}

\* The failure patterns of one constructor call.
CtorEnvs == {env \in SUBSET CtorEnvSteps : Cardinality(env) <= MaxFailures}

\* A project a constructor returned, with the path or URL it was built from.
Built(p, source) == [project |-> p, source |-> source]
NoBuild == Built(NoProject, <<>>)

NoCall == [present |-> FALSE]
NoOutcome == [calls |-> <<>>, repos |-> <<>>, result |-> NoCall]
NoRepos == <<>>
NoSnapshot == [repos |-> NoRepos, tmp_count |-> 0]

\* The refs a repository may already hold when the program starts.
StaleBranch(v) == ProjectStrings([remote_name |-> "origin"],
                                 version_update_of("patch", v)).branch_name

Init ==
    /\ version \in InitVersions
    /\ default_config \in Configs
    /\ \E stale \in BOOLEAN, has_origin \in BOOLEAN :
         LET extra == IF stale THEN {StaleBranch(version)} ELSE {} IN
         repos = (WorkPath :> Repo({MainBranch} \cup extra, {},
                                   IF has_origin
                                   THEN [NoRemotes EXCEPT !["origin"] = OriginUrl]
                                   ELSE [NoRemotes EXCEPT !["upstream"] = OriginUrl]))
                 @@ (OriginUrl :> Repo({MainBranch} \cup extra, {}, NoRemotes))
    /\ tmp_count = 0
    /\ projects = {}
    /\ project = NoProject
    /\ ctor_calls = <<>>
    /\ ctor_result = NoCall
    /\ ctor_before = NoSnapshot
    /\ nctors = 0
    /\ receiver = NoBuild
    /\ calls = <<>>
    /\ result = NoCall
    /\ before = NoRepos
    /\ after = NoRepos
    /\ version_update = NoVersionUpdate
    /\ strings = NoCall
    /\ steps = <<>>
    /\ stranded = {}
    /\ twin = NoOutcome
    /\ nupdates = 0

\* The branch the last call left behind: it was an update call that created
\* the branch and failed at a later step.
Stranding ==
    IF /\ result.present
       /\ ~result.ok
       /\ Len(calls) >= 2
       /\ calls[1].prim = "create_branch"
       /\ calls[1].ok
    THEN {[repo |-> calls[1].repo, branch |-> calls[1].name]}
    ELSE {}

\* What a constructor call leaves behind: Ok(project) or Err(error).  The
\* projects returned earlier stay with the caller.
Constructed(c, name, source) ==
    /\ repos' = c.repos
    /\ tmp_count' = c.tmp_count
    /\ projects' = IF c.err = NoError
                   THEN projects \cup {Built(c.project, source)}
                   ELSE projects
    /\ nctors' = nctors + 1
    /\ stranded' = stranded \cup Stranding
    /\ project' = IF c.err = NoError THEN c.project ELSE NoProject
    /\ ctor_calls' = c.calls
    /\ ctor_result' = [present |-> TRUE, ctor |-> name, ok |-> c.err = NoError,
                       error |-> c.err]
    /\ ctor_before' = [repos |-> repos, tmp_count |-> tmp_count]
    /\ receiver' = NoBuild
    /\ calls' = <<>>
    /\ result' = NoCall
    /\ before' = NoRepos
    /\ after' = NoRepos
    /\ version_update' = NoVersionUpdate
    /\ strings' = NoCall
    /\ steps' = <<>>
    /\ twin' = NoOutcome
    /\ UNCHANGED <<version, default_config, nupdates>>

NewLocalProject ==
    /\ nctors + nupdates < MaxCalls
    /\ \E path \in Paths :
         \E c \in {new_local_project(CtorState(repos, tmp_count), env, path) :
                      env \in CtorEnvs} :
            Constructed(c, "new_local_project", path)

NewRemoteProject ==
    /\ nctors + nupdates < MaxCalls
    /\ \E url \in Urls :
         \E c \in {new_remote_project(CtorState(repos, tmp_count), env, url,
                                      CheckoutDir) : env \in CtorEnvs} :
            Constructed(c, "new_remote_project", url)

NewDryRunProject ==
    /\ nctors + nupdates < MaxCalls
    /\ \E path \in Paths :
         \E c \in {new_dry_run_project(CtorState(repos, tmp_count), env, path) :
                      env \in CtorEnvs} :
            Constructed(c, "new_dry_run_project", path)

\* The same project with only is_dry_run_project changed.
Flipped(p) == [p EXCEPT !.is_dry_run_project = ~@]

\* The result of an update call, tagged with the operation requested.
Returned(operation, res) ==
    [present |-> TRUE, operation |-> operation, ok |-> res.ok,
     error |-> res.error, info |-> res.info]

Updated(operation, out, other) ==
    /\ repos' = out.repos
    /\ calls' = out.calls
    /\ result' = Returned(operation, out.result)
    /\ version_update' = out.version_update
    /\ strings' = [present |-> TRUE] @@ out.strings
    /\ steps' = out.steps
    /\ after' = out.repos
    /\ twin' = [calls |-> other.calls, repos |-> other.repos,
                result |-> Returned(operation, other.result)]

Update ==
    /\ nctors + nupdates < MaxCalls
    /\ \E built \in projects, operation \in Operations :
         \E pair \in {<<update(built.project, repos, version, operation, env),
                        update(Flipped(built.project), repos, version, operation, env)>> :
                         env \in Envs} :
            /\ Updated(operation, pair[1], pair[2])
            /\ receiver' = built
    /\ before' = repos
    /\ stranded' = stranded \cup Stranding
    /\ nupdates' = nupdates + 1
    /\ project' = NoProject
    /\ ctor_calls' = <<>>
    /\ ctor_result' = NoCall
    /\ ctor_before' = NoSnapshot
    /\ UNCHANGED <<version, default_config, tmp_count, projects, nctors>>

Next ==
    \/ NewLocalProject
    \/ NewRemoteProject
    \/ NewDryRunProject
    \/ Update

Spec == Init /\ [][Next]_vars

----------------------------------------------------------------------------
(* Reading the history of the last update call *)

\* The fixed order of the primitives (spec.md 4.1, step 3).
Rank(prim) ==
    CASE prim = "create_branch"   -> 1
      [] prim = "checkout_branch" -> 2
      [] prim = "commit"          -> 3
      [] prim = "create_tag"      -> 4
      [] prim = "push_branch"     -> 5
      [] prim = "push_tag"        -> 6

\* The configuration flag that gates a primitive.
FlagOf(repo_config, prim) ==
    CASE prim \in {"create_branch", "checkout_branch"} -> repo_config.enable_branch
      [] prim = "commit"                              -> repo_config.enable_commit
      [] prim = "create_tag"                          -> repo_config.enable_tag
      [] prim \in {"push_branch", "push_tag"}         -> repo_config.enable_push

UpdateCalled == result.present
\* The project the last update call was made on.
Self == receiver.project
Flags == Self.config.repository
Invoked(prim) == \E i \in 1..Len(calls) : calls[i].prim = prim
\* No primitive that comes before prim in the fixed order failed.
NoFailureBefore(prim) ==
    \A i \in 1..Len(calls) : Rank(calls[i].prim) < Rank(prim) => calls[i].ok

----------------------------------------------------------------------------
(* Claims *)

\* C1: the primitives an update call invokes are, in order, a subsequence of
\* create_branch, checkout_branch, commit, create_tag, push_branch, push_tag;
\* none is invoked twice, and none whose configuration flag is false.
C1_FixedOrder ==
    UpdateCalled =>
        /\ \A i, j \in 1..Len(calls) :
              i < j => Rank(calls[i].prim) < Rank(calls[j].prim)
        /\ \A i \in 1..Len(calls) :
              /\ calls[i].prim \in Prims
              /\ FlagOf(Flags, calls[i].prim)

C1_Witness ==
    /\ UpdateCalled
    /\ Len(calls) = 6
    /\ result.ok

\* C2 as stated: push_branch is invoked exactly when enable_push and
\* enable_branch are set, push_tag exactly when enable_push and enable_tag are.
C2_AsStated ==
    UpdateCalled =>
        /\ Invoked("push_branch") <=> (Flags.enable_push /\ Flags.enable_branch)
        /\ Invoked("push_tag") <=> (Flags.enable_push /\ Flags.enable_tag)

\* C2 amended: push_branch is invoked exactly when enable_push and
\* enable_branch are set and no earlier primitive of the call failed;
\* push_tag exactly when enable_push and enable_tag are set and no earlier
\* primitive of the call failed.
C2_PushGating ==
    UpdateCalled =>
        /\ Invoked("push_branch") <=>
              (Flags.enable_push /\ Flags.enable_branch /\ NoFailureBefore("push_branch"))
        /\ Invoked("push_tag") <=>
              (Flags.enable_push /\ Flags.enable_tag /\ NoFailureBefore("push_tag"))

C2_Witness ==
    /\ UpdateCalled
    /\ Invoked("push_tag")
    /\ ~Invoked("push_branch")
    /\ Flags.enable_commit

\* C3: every push_branch is preceded, in the same update call, by a
\* successful create_branch and checkout_branch of the same name, and every
\* push_tag by a successful create_tag of the same name.
C3_PushOnlyOwnRefs ==
    UpdateCalled =>
        \A j \in 1..Len(calls) :
            /\ calls[j].prim = "push_branch" =>
                  \E i, k \in 1..(j - 1) :
                      /\ i < k
                      /\ calls[i].prim = "create_branch" /\ calls[i].ok
                      /\ calls[k].prim = "checkout_branch" /\ calls[k].ok
                      /\ calls[i].name = calls[j].name
                      /\ calls[k].name = calls[j].name
                      /\ calls[i].repo = calls[j].repo
            /\ calls[j].prim = "push_tag" =>
                  \E i \in 1..(j - 1) :
                      /\ calls[i].prim = "create_tag" /\ calls[i].ok
                      /\ calls[i].name = calls[j].name
                      /\ calls[i].repo = calls[j].repo

C3_Witness ==
    /\ UpdateCalled
    /\ \E j \in 1..Len(calls) : calls[j].prim = "push_branch" /\ calls[j].ok
    /\ \E j \in 1..Len(calls) : calls[j].prim = "push_tag" /\ ~calls[j].ok

\* C4: a primitive that fails is the last one the call invokes, it is
\* invoked once, and update returns Err with that primitive's error and no
\* ProjectUpdateInfo; update returns Err only in that way.
C4_AbortOnFailure ==
    UpdateCalled =>
        /\ \A i \in 1..Len(calls) :
              ~calls[i].ok =>
                  /\ i = Len(calls)
                  /\ \A j \in 1..Len(calls) : calls[j].prim = calls[i].prim => j = i
                  /\ ~result.ok
                  /\ result.error = calls[i].error
                  /\ result.error.source = calls[i].prim
                  /\ result.info = ProjectUpdateInfo(<<>>)
        /\ ~result.ok => (Len(calls) > 0 /\ ~calls[Len(calls)].ok)

C4_Witness ==
    /\ UpdateCalled
    /\ ~result.ok
    /\ Len(calls) = 3
    /\ calls[3].prim = "commit"
    /\ Flags.enable_tag /\ Flags.enable_push

\* What a successful invocation did is there in the repositories.
EffectPresent(call) ==
    LET h == call.repo IN
    CASE call.prim = "create_branch" ->
            call.name \in after[h].branches /\ call.name \notin before[h].branches
      [] call.prim = "checkout_branch" -> after[h].head = call.name
      [] call.prim = "commit" ->
            /\ Len(after[h].commits) = Len(before[h].commits) + 1
            /\ after[h].commits[Len(after[h].commits)].message = call.name
      [] call.prim = "create_tag" ->
            call.name \in after[h].tags /\ call.name \notin before[h].tags
      [] call.prim = "push_branch" ->
            call.name \in after[after[h].remotes[call.remote]].branches
      [] call.prim = "push_tag" ->
            call.name \in after[after[h].remotes[call.remote]].tags

\* Nothing a repository held before the call is gone after it.
NothingUndone ==
    \A loc \in DOMAIN before :
        /\ loc \in DOMAIN after
        /\ before[loc].branches \subseteq after[loc].branches
        /\ before[loc].tags \subseteq after[loc].tags
        /\ Len(before[loc].commits) <= Len(after[loc].commits)
        /\ SubSeq(after[loc].commits, 1, Len(before[loc].commits)) = before[loc].commits

\* C5: when update returns an error, the effect of every primitive that
\* succeeded before the failure is still in the repository, and nothing the
\* repositories held before the call has been removed.
C5_NoCompensation ==
    (UpdateCalled /\ ~result.ok) =>
        /\ \A i \in 1..Len(calls) : calls[i].ok => EffectPresent(calls[i])
        /\ NothingUndone

C5_Witness ==
    /\ UpdateCalled
    /\ ~result.ok
    /\ Len(calls) = 6
    /\ \A i \in 1..5 : calls[i].ok
    /\ after # before

\* C6: checkout_branch is invoked only after create_branch was invoked, and
\* succeeded, earlier in the same update call.
C6_CheckoutAfterCreate ==
    UpdateCalled =>
        \A j \in 1..Len(calls) :
            calls[j].prim = "checkout_branch" =>
                \E i \in 1..(j - 1) :
                    /\ calls[i].prim = "create_branch"
                    /\ calls[i].ok
                    /\ calls[i].name = calls[j].name

C6_Witness ==
    /\ UpdateCalled
    /\ Len(calls) = 2
    /\ calls[2].prim = "checkout_branch"
    /\ ~calls[2].ok

AllFlagsOff ==
    /\ ~Flags.enable_branch
    /\ ~Flags.enable_commit
    /\ ~Flags.enable_tag
    /\ ~Flags.enable_push

\* C7: with the four flags false, update invokes no primitive, leaves every
\* repository as it was, resolves the version and returns Ok with the path
\* of the project's repository.
C7_AllDisabled ==
    (UpdateCalled /\ AllFlagsOff) =>
        /\ calls = <<>>
        /\ after = before
        /\ version_update = version_update_of(result.operation, version)
        /\ version_update.new # version_update.old
        /\ result.ok
        /\ result.info.repo_path = repo_path_of(Self.repo)

C7_Witness ==
    /\ UpdateCalled
    /\ AllFlagsOff
    /\ nupdates = 2

\* The last update call was made on a project new_dry_run_project built:
\* the path that constructor was given, and the remote it cloned.
DryRunUpdated == UpdateCalled /\ Self.is_dry_run_project
DryRunRemote == before[Self.repo].remotes["origin"]

\* C8 as stated: an update call on a project built by new_dry_run_project
\* changes neither the repository at the given path nor the remote it was
\* cloned from.
C8_DryRunIsolated ==
    DryRunUpdated =>
        /\ after[receiver.source] = before[receiver.source]
        /\ after[DryRunRemote] = before[DryRunRemote]

\* The last constructor call was new_dry_run_project, on the path DryRunSource.
DryRunSource == ctor_calls[1].arg
DryRunBuilt ==
    /\ ctor_result.present
    /\ ctor_result.ctor = "new_dry_run_project"
    /\ ctor_result.ok

\* C9: the project new_dry_run_project(path) yields holds a clone of the
\* origin URL in a temporary directory allocated by that call; its location
\* differs from path, update calls on it leave the repository at path alone,
\* and the path a later update returns is the clone's, not the original's.
C9_DryRunHandle ==
    /\ DryRunBuilt =>
          LET path == DryRunSource
              url == repos[path].remotes["origin"]
          IN
          /\ project.present /\ project.is_dry_run_project
          /\ Built(project, path) \in projects
          /\ project.repo # path
          /\ tmp_count = ctor_before.tmp_count + 1
          /\ SubSeq(project.repo, 1, 2) = <<"tmp", ToString(tmp_count)>>
          /\ project.repo \notin DOMAIN ctor_before.repos
          /\ \E i \in 1..Len(ctor_calls) :
                ctor_calls[i].step = "clone" /\ ctor_calls[i].arg = url /\ ctor_calls[i].ok
    /\ \A built \in projects :
          built.project.is_dry_run_project =>
              /\ built.project.repo # built.source
              /\ built.project.repo[1] = "tmp"
              /\ built.project.repo \in DOMAIN repos
              /\ repos[built.project.repo].remotes["origin"] =
                    repos[built.source].remotes["origin"]
              /\ \A other \in projects :
                    other.project.repo = built.project.repo => other = built
    /\ DryRunUpdated =>
          /\ receiver \in projects
          /\ after[receiver.source] = before[receiver.source]
          /\ \A i \in 1..Len(calls) : calls[i].repo = Self.repo
          /\ result.ok =>
                /\ result.info.repo_path = repo_path_of(Self.repo)
                /\ result.info.repo_path # repo_path_of(receiver.source)

\* The second dry-run project of a behaviour, updated with success.
C9_Witness ==
    /\ DryRunUpdated
    /\ Self.repo = <<"tmp", "2", "proj">>
    /\ Cardinality({built \in projects : built.project.is_dry_run_project}) = 2
    /\ result.ok
    /\ Len(calls) >= 3
    /\ after[Self.repo] # before[Self.repo]

\* C10: update does not look at is_dry_run_project: on the project with
\* only that flag changed, the same operation in the same repositories
\* invokes the same primitives with the same arguments, leaves the same
\* repositories and returns the same result.
C10_DryRunFlagIgnored ==
    UpdateCalled =>
        /\ twin.calls = calls
        /\ twin.result = result
        /\ twin.repos = after

C10_Witness ==
    /\ DryRunUpdated
    /\ Invoked("push_branch")
    /\ twin.result.ok

DryRunCalled ==
    /\ ctor_result.present
    /\ ctor_result.ctor = "new_dry_run_project"

\* The local repository opened, so that its remotes were looked at.
DryRunOpened ==
    /\ DryRunCalled
    /\ ctor_calls[1].step = "open"
    /\ ctor_calls[1].ok

\* C11: when the repository at path (which opens) has no remote "origin",
\* new_dry_run_project fails with the error of the remote lookup, allocates
\* no directory and clones nothing; and whatever the outcome, the only
\* remote name it resolves is "origin" and the only URL it clones is the
\* one "origin" resolved to.
C11_OriginOnly ==
    DryRunCalled =>
        /\ \A i \in 1..Len(ctor_calls) :
              /\ ctor_calls[i].step = "remote_url" => ctor_calls[i].arg = <<"origin">>
              /\ ctor_calls[i].step = "clone" =>
                    ctor_calls[i].arg = ctor_before.repos[DryRunSource].remotes["origin"]
        /\ (DryRunOpened /\ ctor_before.repos[DryRunSource].remotes["origin"] = NoUrl) =>
              /\ ~ctor_result.ok
              /\ ctor_result.error = Error("remote_url", "remote_not_found")
              /\ Len(ctor_calls) = 2
              /\ ctor_calls[2].step = "remote_url" /\ ~ctor_calls[2].ok
              /\ ~project.present
              /\ tmp_count = ctor_before.tmp_count
              /\ DOMAIN repos = DOMAIN ctor_before.repos

C11_Witness ==
    /\ DryRunOpened
    /\ ctor_before.repos[DryRunSource].remotes["origin"] = NoUrl
    /\ ctor_before.repos[DryRunSource].remotes["upstream"] # NoUrl
    /\ ~ctor_result.ok
    /\ ctor_result.error.source = "remote_url"

\* The position of a step in the last update call (0 when it did not happen).
StepAt(name) ==
    IF \E i \in 1..Len(steps) : steps[i] = name
    THEN CHOOSE i \in 1..Len(steps) : steps[i] = name
    ELSE 0

\* C12: in every update call the version is resolved, then the identifiers
\* are rendered, then the primitives are invoked; the identifiers are the
\* ones rendered from the version this call resolved, and every primitive
\* is given one of them.
C12_ResolveRenderMutate ==
    UpdateCalled =>
        /\ StepAt("version_update") > 0
        /\ StepAt("version_update") < StepAt("ProjectStrings::new")
        /\ \A k \in 1..Len(steps) :
              /\ steps[k] \in Prims => StepAt("ProjectStrings::new") < k
              /\ steps[k] \in {"version_update", "ProjectStrings::new"} =>
                    k = StepAt(steps[k])
        /\ Len(steps) = Len(calls) + 3
        /\ \A i \in 1..Len(calls) : steps[i + 3] = calls[i].prim
        /\ version_update = version_update_of(result.operation, version)
        /\ [f \in {"branch_name", "commit_message", "tag_name", "remote_name"}
              |-> strings[f]] = ProjectStrings(Self.config, version_update)
        /\ \A i \in 1..Len(calls) :
              calls[i].name.version = version_update.new

C12_Witness ==
    /\ UpdateCalled
    /\ nupdates = 2
    /\ Len(steps) = 9
    /\ result.operation = "minor"

\* The names the last update call pushed with success, per kind of ref.
Pushed(prim, url) ==
    {calls[i].name : i \in {j \in 1..Len(calls) :
                              /\ calls[j].prim = prim
                              /\ calls[j].ok
                              /\ after[calls[j].repo].remotes[calls[j].remote] = url}}

\* The remotes the last update call pushed to with success.
PushTargets ==
    {url \in DOMAIN after : Pushed("push_branch", url) \cup Pushed("push_tag", url) # {}}

OwnHandleOnly == \A i \in 1..Len(calls) : calls[i].repo = Self.repo

\* C14 as stated: every primitive of an update call receives the project's
\* own repository handle, and no other repository is changed by the call.
C14_AsStated ==
    UpdateCalled =>
        /\ OwnHandleOnly
        /\ DOMAIN after = DOMAIN before
        /\ \A loc \in DOMAIN after \ {Self.repo} : after[loc] = before[loc]

\* C14 amended: every primitive of an update call receives the project's
\* own repository handle; the call changes no repository other than that one
\* and the remote a successful push was sent to, and that remote changes
\* only by gaining the pushed branch and tag.
C14_OneHandle ==
    UpdateCalled =>
        /\ OwnHandleOnly
        /\ DOMAIN after = DOMAIN before
        /\ \A loc \in DOMAIN after \ {Self.repo} :
              after[loc] =
                 [before[loc] EXCEPT
                    !.branches = @ \cup Pushed("push_branch", loc),
                    !.tags = @ \cup Pushed("push_tag", loc)]

C14_Witness ==
    /\ UpdateCalled
    /\ Self.repo # WorkPath
    /\ PushTargets = {OriginUrl}
    /\ after[OriginUrl] # before[OriginUrl]
    /\ after[WorkPath] = before[WorkPath]

\* The primitives a configuration selects.
Selected(repo_config) ==
    {p \in Prims :
        /\ FlagOf(repo_config, p)
        /\ p = "push_branch" => repo_config.enable_branch
        /\ p = "push_tag" => repo_config.enable_tag}

SucceededIn(prim) ==
    \E i \in 1..Len(calls) : calls[i].prim = prim /\ calls[i].ok

\* C15: update returns Ok exactly when every primitive the flags select
\* was invoked and succeeded, and then the primitives invoked are exactly
\* the selected ones: create_branch and checkout_branch iff enable_branch,
\* commit iff enable_commit, create_tag iff enable_tag, push_branch iff
\* enable_push and enable_branch, push_tag iff enable_push and enable_tag.
C15_SuccessExactly ==
    UpdateCalled =>
        /\ result.ok <=> (\A p \in Selected(Flags) : SucceededIn(p))
        /\ result.ok =>
              /\ {calls[i].prim : i \in 1..Len(calls)} = Selected(Flags)
              /\ Len(calls) = Cardinality(Selected(Flags))
              /\ \A i \in 1..Len(calls) : calls[i].ok
              /\ Invoked("create_branch") <=> Flags.enable_branch
              /\ Invoked("checkout_branch") <=> Flags.enable_branch
              /\ Invoked("commit") <=> Flags.enable_commit
              /\ Invoked("create_tag") <=> Flags.enable_tag
              /\ Invoked("push_branch") <=> (Flags.enable_push /\ Flags.enable_branch)
              /\ Invoked("push_tag") <=> (Flags.enable_push /\ Flags.enable_tag)

\* Scenario C of spec.md 8: tag and push enabled, branch disabled.
C15_Witness ==
    /\ UpdateCalled
    /\ result.ok
    /\ Flags.enable_tag /\ Flags.enable_push /\ ~Flags.enable_branch
    /\ Flags.enable_commit
    /\ SucceededIn("commit") /\ SucceededIn("create_tag") /\ SucceededIn("push_tag")
    /\ ~Invoked("push_branch") /\ ~Invoked("create_branch")

\* The branch the last update call rendered was there when it started.
BranchExisted ==
    /\ UpdateCalled
    /\ Flags.enable_branch
    /\ strings.branch_name \in before[Self.repo].branches

AlreadyExists == Error("create_branch", "already_exists")

\* C16: with enable_branch set, when the rendered branch already exists as
\* update is called, update returns the already-exists error of
\* create_branch, invokes nothing after it (no checkout, commit, tag or
\* push) and leaves every repository as it was.
C16_ExistingBranch ==
    BranchExisted =>
        /\ ~result.ok
        /\ result.error = AlreadyExists
        /\ Len(calls) = 1
        /\ calls[1].prim = "create_branch"
        /\ calls[1].name = strings.branch_name
        /\ ~calls[1].ok
        /\ after = before

C16_Witness ==
    /\ BranchExisted
    /\ nupdates = 1
    /\ Flags.enable_commit /\ Flags.enable_tag /\ Flags.enable_push
    /\ result.error = AlreadyExists

\* The collaborators new_dry_run_project goes through, in source order;
\* repo_path and clone are the two calls of new_remote_project (the clone
\* step of spec.md 4.2).
DryRunOrder == <<"open", "remote_url", "directory", "repo_path", "clone">>

CtorStepOk(step) ==
    \E i \in 1..Len(ctor_calls) : ctor_calls[i].step = step /\ ctor_calls[i].ok

\* C17: new_dry_run_project opens the local repository, resolves origin,
\* allocates the temporary directory and clones, in that order and each at
\* most once; the first step that fails is the last one performed and its
\* error is the constructor's; no directory is allocated unless origin
\* resolved, and no repository is created unless the clone succeeded.
C17_DryRunSteps ==
    DryRunCalled =>
        /\ Len(ctor_calls) \in 1..Len(DryRunOrder)
        /\ \A i \in 1..Len(ctor_calls) : ctor_calls[i].step = DryRunOrder[i]
        /\ \A i \in 1..(Len(ctor_calls) - 1) : ctor_calls[i].ok
        /\ ctor_result.ok <=> CtorStepOk("clone")
        /\ ~ctor_result.ok =>
              /\ ~ctor_calls[Len(ctor_calls)].ok
              /\ ctor_result.error.source = ctor_calls[Len(ctor_calls)].step
              /\ ~project.present
        /\ tmp_count = ctor_before.tmp_count + (IF CtorStepOk("directory") THEN 1 ELSE 0)
        /\ CtorStepOk("directory") => CtorStepOk("remote_url")
        /\ CtorStepOk("remote_url") => CtorStepOk("open")
        /\ ~CtorStepOk("clone") => DOMAIN repos = DOMAIN ctor_before.repos
        /\ CtorStepOk("clone") =>
              DOMAIN repos = DOMAIN ctor_before.repos \cup {project.repo}

C17_Witness ==
    /\ DryRunCalled
    /\ ~ctor_result.ok
    /\ Len(ctor_calls) = 5
    /\ ctor_result.error.source = "clone"
    /\ tmp_count = ctor_before.tmp_count + 1

\* C18: within one update call create_branch, checkout_branch and
\* push_branch receive the rendered branch name, create_tag and push_tag the
\* rendered tag name, both pushes the rendered remote name, commit the
\* rendered message with an empty path list, and create_tag no target.
C18_RenderedOnce ==
    UpdateCalled =>
        \A i \in 1..Len(calls) :
            LET c == calls[i] IN
            /\ c.prim \in {"create_branch", "checkout_branch", "push_branch"} =>
                  c.name = strings.branch_name
            /\ c.prim \in {"create_tag", "push_tag"} => c.name = strings.tag_name
            /\ c.prim \in {"push_branch", "push_tag"} =>
                  /\ c.remote = strings.remote_name
                  /\ c.remote = Self.config.remote_name
            /\ c.prim = "commit" =>
                  /\ c.name = strings.commit_message
                  /\ c.paths = <<>>
                  /\ c.ok => after[c.repo].commits[Len(after[c.repo].commits)].paths = <<>>
            /\ c.prim = "create_tag" => c.target = "None"
            /\ Cardinality({k \in 1..Len(steps) : steps[k] = "ProjectStrings::new"}) = 1

C18_Witness ==
    /\ UpdateCalled
    /\ Len(calls) = 6
    /\ result.ok
    /\ strings.remote_name = "upstream"
    /\ nupdates = 2

\* The last update call rendered a branch that an earlier update call on
\* the same repository had created before failing at a later step.
RerunAfterPartialFailure ==
    /\ UpdateCalled
    /\ Flags.enable_branch
    /\ [repo |-> Self.repo, branch |-> strings.branch_name] \in stranded

\* C19: with enable_branch set, once an update call has failed after its
\* create_branch succeeded, every later update call that renders the same
\* branch name fails at create_branch with already-exists, invokes nothing
\* else and changes nothing: the steps left undone stay undone.
C19_RerunFails ==
    RerunAfterPartialFailure =>
        /\ ~result.ok
        /\ result.error = AlreadyExists
        /\ Len(calls) = 1
        /\ calls[1].prim = "create_branch"
        /\ ~calls[1].ok
        /\ after = before

C19_Witness ==
    /\ RerunAfterPartialFailure
    /\ nupdates = 2
    /\ Flags.enable_commit /\ Flags.enable_tag
    /\ before[Self.repo].commits = <<>>
    /\ before[Self.repo].tags = {}
    /\ result.error = AlreadyExists

====
